---- MODULE Spec2Model ----
(***************************************************************************)
(* Model of downloader/views.py: the URL normalizer sanitize_youtube_url,  *)
(* the retrying metadata fetcher get_yt_object, and the two request        *)
(* handlers home and download_video.                                       *)
(*                                                                         *)
(* Text is modelled as sequences of one-character strings, so that the     *)
(* regular-expression search, strip()/rstrip() and the filename filter are *)
(* computed character by character as the code computes them.              *)
(***************************************************************************)
EXTENDS Integers, Sequences, FiniteSets, TLC

VARIABLES
    nIn,      \* sanitize_youtube_url under test: how the argument was built, and its text
    nOut,     \* sanitize_youtube_url under test: the outcome of the call
    req,      \* the requests being handled: request id -> the handler's local state
    disk,     \* MEDIA_ROOT/downloads: filename -> content of the file
    catalog   \* what the remote service may answer (fixed during a behaviour)

vars == <<nIn, nOut, req, disk, catalog>>

----------------------------------------------------------------------------
(* Characters and text                                                     *)

Lower == {"a","b","c","d","e","f","g","h","i","j","k","l","m",
          "n","o","p","q","r","s","t","u","v","w","x","y","z"}

Upper == {"A","B","C","D","E","F","G","H","I","J","K","L","M",
          "N","O","P","Q","R","S","T","U","V","W","X","Y","Z"}

Digit == {"0","1","2","3","4","5","6","7","8","9"}

\* the character class [a-zA-Z0-9_-] of the four patterns
IdChar == Lower \cup Upper \cup Digit \cup {"_", "-"}

\* str.isalnum() on the ASCII characters the model uses
IsAlnum(c) == c \in Lower \cup Upper \cup Digit

\* the characters str.strip() and str.rstrip() remove
Whitespace == {" ", "\t", "\n", "\r", "\f"}

Empty == << >>

\* s[i:] starts with p (i is 1-based)
StartsWithAt(s, i, p) ==
    /\ i + Len(p) - 1 <= Len(s)
    /\ \A k \in 1..Len(p) : s[i + k - 1] = p[k]

\* number of leading characters of s, from index i on, that are in S
RECURSIVE RunLen(_, _, _)
RunLen(s, i, S) ==
    IF i <= Len(s) /\ s[i] \in S THEN 1 + RunLen(s, i + 1, S) ELSE 0

\* str.rstrip()
RECURSIVE RStrip(_)
RStrip(s) ==
    IF s # Empty /\ s[Len(s)] \in Whitespace
    THEN RStrip(SubSeq(s, 1, Len(s) - 1))
    ELSE s

\* str.lstrip()
RECURSIVE LStrip(_)
LStrip(s) ==
    IF s # Empty /\ s[1] \in Whitespace THEN LStrip(Tail(s)) ELSE s

\* str.strip()
Strip(s) == LStrip(RStrip(s))

----------------------------------------------------------------------------
(* sanitize_youtube_url                                                    *)

IdLen == 11

S_https    == <<"h","t","t","p","s",":","/","/">>
S_http     == <<"h","t","t","p",":","/","/">>
S_www      == <<"w","w","w",".">>
S_m        == <<"m",".">>
S_youtube  == <<"y","o","u","t","u","b","e",".","c","o","m","/">>
L_short    == <<"y","o","u","t","u",".","b","e","/">>
L_watch    == S_youtube \o <<"w","a","t","c","h","?","v","=">>
L_embed    == S_youtube \o <<"e","m","b","e","d","/">>
L_v        == S_youtube \o <<"v","/">>

\* (?:https?:\/\/)?  in the order the regex engine tries the alternatives
SchemeOpts == <<S_https, S_http, Empty>>

\* (?:www\.|m\.)?
HostOpts == <<S_www, S_m, Empty>>

\* mutant: the list without its last pattern
patterns_without_v == <<L_short, L_watch, L_embed>>

\* the literal part of each pattern of the list, in the list's order
patterns == <<L_short, L_watch, L_embed, L_v>>

NoMatch == <<"NoMatch">>

\* the pattern matched with its first character at index i: group(1), or NoMatch
MatchAt(s, i, lit) ==
    LET tries == { <<a, b>> \in (1..Len(SchemeOpts)) \X (1..Len(HostOpts)) :
                     LET pre == SchemeOpts[a] \o HostOpts[b] \o lit
                     IN  /\ StartsWithAt(s, i, pre)
                         /\ RunLen(s, i + Len(pre), IdChar) >= IdLen }
    IN  IF tries = {} THEN NoMatch
        ELSE LET t   == CHOOSE t \in tries :
                            \A u \in tries : t[1] < u[1] \/ (t[1] = u[1] /\ t[2] <= u[2])
                 pre == SchemeOpts[t[1]] \o HostOpts[t[2]] \o lit
             IN  SubSeq(s, i + Len(pre), i + Len(pre) + IdLen - 1)

\* re.search(pattern, url): the leftmost match's group(1), or NoMatch
ReSearch(s, lit) ==
    LET starts == { i \in 1..(Len(s) + 1) : MatchAt(s, i, lit) # NoMatch }
    IN  IF starts = {} THEN NoMatch
        ELSE MatchAt(s, CHOOSE i \in starts : \A j \in starts : i <= j, lit)

CanonPrefix == S_https \o S_www \o L_watch

\* a call's outcome: a returned value or a raised exception
Return(v) == [kind |-> "return", value |-> v]
Raise(cls, msg) == [kind |-> "raise", cls |-> cls, msg |-> msg]

\* the for loop over the patterns, from pattern k on
RECURSIVE SanitizeFrom(_, _)
SanitizeFrom(url, k) ==
    IF k > Len(patterns)
    THEN Raise("RegexMatchError", "Invalid YouTube URL format")
    ELSE LET match == ReSearch(url, patterns[k])
         IN  IF match # NoMatch /\ Len(match) = 11
             THEN Return(CanonPrefix \o match)
             ELSE SanitizeFrom(url, k + 1)

sanitize_youtube_url(url) == SanitizeFrom(url, 1)

----------------------------------------------------------------------------
(* Exceptions                                                              *)

\* the base class of each exception class (pytube.exceptions and builtins)
ParentOf(cls) ==
    CASE cls = "AgeRestrictedError" -> "VideoUnavailable"
      [] cls = "VideoUnavailable"   -> "PytubeError"
      [] cls = "RegexMatchError"    -> "ExtractionError"
      [] cls = "ExtractionError"    -> "PytubeError"
      [] cls = "PytubeError"        -> "Exception"
      [] cls = "FileNotFoundError"  -> "OSError"
      [] cls = "URLError"           -> "OSError"
      [] cls = "OSError"            -> "Exception"
      [] cls = "KeyError"           -> "Exception"
      [] OTHER                      -> "BaseException"

\* whether an `except base` clause catches an exception of class cls
RECURSIVE IsInstance(_, _)
IsInstance(cls, base) ==
    \/ cls = base
    \/ cls # "BaseException" /\ IsInstance(ParentOf(cls), base)

Pending == [kind |-> "pending"]

----------------------------------------------------------------------------
(* Responses                                                               *)

NoResponse ==
    [kind |-> "none", status |-> 0, template |-> "", context |-> << >>,
     body |-> << >>, content_type |-> "", disposition |-> Empty]

\* render(request, template, context)
Render(template, context) ==
    [NoResponse EXCEPT !.kind = "render", !.status = 200,
                       !.template = template, !.context = context]

\* HttpResponseBadRequest(text)
BadRequest(text) ==
    [NoResponse EXCEPT !.kind = "bad_request", !.status = 400,
                       !.context = ("text" :> text)]

\* redirect(name)
Redirect(name) ==
    [NoResponse EXCEPT !.kind = "redirect", !.status = 302,
                       !.context = ("to" :> name)]

\* HttpResponse(content, content_type=...) with a Content-Disposition header
FileResponse(content, filename) ==
    [NoResponse EXCEPT !.kind = "file", !.status = 200, !.body = content,
                       !.content_type = "video/mp4", !.disposition = filename]

\* an exception that no except clause of the handler catches
Propagated(exc) ==
    [NoResponse EXCEPT !.kind = "exception", !.status = 500,
                       !.context = ("cls" :> exc.cls)]

----------------------------------------------------------------------------
(* A request being handled                                                 *)

NoHandle == [ok |-> FALSE, video_id |-> Empty, title |-> Empty, streams |-> {}]

NoStream == "None"

\* the state of one handler invocation at its first line
NewRequest(handler, method, posted_url, posted_quality) ==
    [handler          |-> handler,
     method           |-> method,
     posted_url       |-> posted_url,       \* request.POST.get('url', '')
     posted_quality   |-> posted_quality,   \* request.POST.get('quality', 'highest')
     pc               |-> "entry",
     url              |-> Empty,
     quality          |-> "",
     clean_url        |-> Empty,
     attempt          |-> 0,                \* get_yt_object: the loop variable
     slept            |-> 0,                \* get_yt_object: total time.sleep() so far
     failures         |-> << >>,            \* get_yt_object: class of each caught exception
     fetch            |-> Pending,          \* get_yt_object: its outcome
     yt               |-> NoHandle,
     stream           |-> NoStream,
     filename         |-> Empty,
     wrote            |-> Empty,            \* the file stream.download() wrote
     checked          |-> Empty,            \* the file os.path.exists() looked for
     response         |-> NoResponse,
     caught           |-> Pending,          \* the exception the except clauses caught
     normalizer_calls |-> 0,
     fetcher_calls    |-> 0,
     remote_calls     |-> 0,
     selections       |-> 0,
     retrievals       |-> 0,
     trace            |-> << >>]            \* the steps taken, in order

Step(q, name) == [q EXCEPT !.trace = Append(@, name)]

\* the handler returns
Finish(q, response, name) ==
    [Step(q, name) EXCEPT !.pc = "done", !.response = response]

----------------------------------------------------------------------------
(* The handlers' except clauses                                            *)

\* mutant: home without its last clause, `except Exception`
home_except_narrow(q, exc) ==
    IF IsInstance(exc.cls, "PytubeError")
    THEN Render("home.html", ("error" :> exc.msg))
    ELSE IF IsInstance(exc.cls, "AgeRestrictedError")
    THEN Render("home.html", ("error" :> "Age-restricted video. Please login to YouTube."))
    ELSE IF IsInstance(exc.cls, "RegexMatchError")
    THEN Render("home.html", ("error" :> "Invalid YouTube URL format"))
    ELSE Propagated(exc)

\* the except clauses of home, in their order
home_except(q, exc) ==
    IF IsInstance(exc.cls, "PytubeError")
    THEN Render("home.html", ("error" :> exc.msg))
    ELSE IF IsInstance(exc.cls, "AgeRestrictedError")
    THEN Render("home.html", ("error" :> "Age-restricted video. Please login to YouTube."))
    ELSE IF IsInstance(exc.cls, "RegexMatchError")
    THEN Render("home.html", ("error" :> "Invalid YouTube URL format"))
    ELSE IF IsInstance(exc.cls, "Exception")
    THEN Render("home.html", ("error" :> "Failed to fetch video information"))
    ELSE Propagated(exc)

\* the except clauses of download_video, in their order
download_except(q, exc) ==
    IF IsInstance(exc.cls, "PytubeError")
    THEN Render("home.html", ("error" :> exc.msg @@ "url" :> q.url))
    ELSE IF IsInstance(exc.cls, "Exception")
    THEN Render("home.html",
                ("error" :> "Download failed. Please try again later." @@ "url" :> q.url))
    ELSE Propagated(exc)

\* the try block of the handler raises exc: the except clauses of that
\* handler answer, and the handler returns
Fail(q, exc) ==
    Finish([q EXCEPT !.caught = exc],
           IF q.handler = "home" THEN home_except(q, exc) ELSE download_except(q, exc),
           "error")

----------------------------------------------------------------------------
(* get_yt_object                                                           *)

max_retries == 3

\* mutant: the backoff is 2 * attempt instead of 2 ** attempt
get_yt_object_attempt_linear(q, out, handle) ==
    LET attempt == q.attempt
        q0 == [q EXCEPT !.remote_calls = @ + 1]
    IN  IF out = "ok"
        THEN [q0 EXCEPT !.yt = handle, !.fetch = Return("yt")]
        ELSE LET q1 == [q0 EXCEPT
                           !.failures = Append(@, out),
                           !.slept = IF attempt < max_retries - 1
                                     THEN @ + 2 * attempt ELSE @,
                           !.attempt = attempt + 1]
             IN  IF attempt + 1 < max_retries
                 THEN q1
                 ELSE [q1 EXCEPT !.fetch =
                          Raise("PytubeError",
                                "Could not initialize YouTube object. Check your network or try another video.")]

\* what one iteration of the retry loop does with the remote's answer `out`
\* ("ok" with the handle, or the class of the exception raised)
get_yt_object_attempt(q, out, handle) ==
    LET attempt == q.attempt
        q0 == [q EXCEPT !.remote_calls = @ + 1]
    IN  IF out = "ok"
        THEN [q0 EXCEPT !.yt = handle, !.fetch = Return("yt")]
        ELSE LET q1 == [q0 EXCEPT
                           !.failures = Append(@, out),
                           !.slept = IF attempt < max_retries - 1
                                     THEN @ + 2 ^ attempt ELSE @,
                           !.attempt = attempt + 1]
             IN  IF attempt + 1 < max_retries
                 THEN q1
                 ELSE [q1 EXCEPT !.fetch =
                          Raise("PytubeError",
                                "Could not initialize YouTube object. Check your network or try another video.")]

----------------------------------------------------------------------------
(* The extraction library, as the handlers use it                          *)

\* YouTube(url).video_id for a canonical URL: the identifier after watch?v=
VideoIdOf(clean_url) ==
    SubSeq(clean_url, Len(CanonPrefix) + 1, Len(CanonPrefix) + IdLen)

\* the number in a resolution label; order_by('resolution') sorts by it
ResValue(label) ==
    CASE label = "360p"  -> 360
      [] label = "480p"  -> 480
      [] label = "720p"  -> 720
      [] label = "1080p" -> 1080
      [] OTHER           -> 0

\* yt.streams.get_highest_resolution()
get_highest_resolution(streams) ==
    IF streams = {} THEN NoStream
    ELSE CHOOSE s \in streams : \A t \in streams : ResValue(t) <= ResValue(s)

\* yt.streams.get_lowest_resolution()
get_lowest_resolution(streams) ==
    IF streams = {} THEN NoStream
    ELSE CHOOSE s \in streams : \A t \in streams : ResValue(s) <= ResValue(t)

\* yt.streams.get_by_resolution(resolution)
get_by_resolution(streams, resolution) ==
    IF resolution \in streams THEN resolution ELSE NoStream

\* yt.streams.filter(...).order_by('resolution').desc()
RECURSIVE OrderDesc(_)
OrderDesc(streams) ==
    IF streams = {} THEN << >>
    ELSE LET top == get_highest_resolution(streams)
         IN  <<top>> \o OrderDesc(streams \ {top})

----------------------------------------------------------------------------
(* home                                                                    *)

\* from the first line to the empty-url check
home_entry(q) ==
    IF q.method # "POST"
    THEN Finish(q, Render("home.html", << >>), "form")
    ELSE LET url == Strip(q.posted_url)
         IN  IF url = Empty
             THEN Finish([q EXCEPT !.url = url],
                         Render("home.html", ("error" :> "Please enter a YouTube URL")),
                         "reject")
             ELSE [Step(q, "validate") EXCEPT !.url = url, !.pc = "normalize"]

\* the streams query and context.update(...); `out` is "ok" or the class of
\* the exception a metadata accessor raises
home_gather(q, out) ==
    IF out # "ok"
    THEN Fail(q, Raise(out, "library error"))
    ELSE Finish(q,
                Render("home.html",
                       ("title"     :> q.yt.title @@
                        "duration"  :> "duration" @@
                        "views"     :> "views" @@
                        "author"    :> "author" @@
                        "thumbnail" :> "thumbnail" @@
                        "streams"   :> OrderDesc(q.yt.streams) @@
                        "video_id"  :> q.yt.video_id @@
                        "clean_url" :> q.clean_url @@
                        "success"   :> TRUE)),
                "render")

----------------------------------------------------------------------------
(* download_video                                                          *)

\* mutant: the url is tested for emptiness without .strip()
download_entry_unstripped(q) ==
    IF q.method # "POST"
    THEN Finish(q, Redirect("home"), "redirect")
    ELSE LET url == q.posted_url
             q1  == [q EXCEPT !.url = url, !.quality = q.posted_quality]
         IN  IF url = Empty
             THEN Finish(q1, BadRequest("No URL provided"), "reject")
             ELSE [Step(q1, "validate") EXCEPT !.pc = "normalize"]

\* from the first line to the empty-url check
download_entry(q) ==
    IF q.method # "POST"
    THEN Finish(q, Redirect("home"), "redirect")
    ELSE LET url == Strip(q.posted_url)
             q1  == [q EXCEPT !.url = url, !.quality = q.posted_quality]
         IN  IF url = Empty
             THEN Finish(q1, BadRequest("No URL provided"), "reject")
             ELSE [Step(q1, "validate") EXCEPT !.pc = "normalize"]

\* mutant: the branches of 'highest' and 'lowest' exchanged
SelectStream_swapped(quality, streams) ==
    IF quality = "highest" THEN get_lowest_resolution(streams)
    ELSE IF quality = "lowest" THEN get_highest_resolution(streams)
    ELSE get_by_resolution(streams, quality)

\* the if / elif / else on quality
SelectStream(quality, streams) ==
    IF quality = "highest" THEN get_highest_resolution(streams)
    ELSE IF quality = "lowest" THEN get_lowest_resolution(streams)
    ELSE get_by_resolution(streams, quality)

S_mp4 == <<".","m","p","4">>

\* c.isalnum() or c in (' ', '-', '_')
SafeChar(c) == IsAlnum(c) \/ c \in {" ", "-", "_"}

\* mutant: .strip() instead of .rstrip()
MakeFilename_strip(title, video_id) ==
    Strip(SelectSeq(title, SafeChar)) \o <<"_">> \o video_id \o S_mp4

\* mutant: the filename without the video id
MakeFilename_without_id(title, video_id) ==
    RStrip(SelectSeq(title, SafeChar)) \o S_mp4

\* safe_title and filename
MakeFilename(title, video_id) ==
    RStrip(SelectSeq(title, SafeChar)) \o <<"_">> \o video_id \o S_mp4

\* stream selection, the `if not stream` check and the filename; `out` is
\* "ok" or the class of the exception the library raises
download_select(q, out) ==
    LET q1 == [Step(q, "select") EXCEPT !.selections = @ + 1]
    IN  IF out # "ok"
        THEN Fail(q1, Raise(out, "library error"))
        ELSE LET stream == SelectStream(q1.quality, q1.yt.streams)
             IN  IF stream = NoStream
                 THEN Fail(q1, Raise("PytubeError", "No suitable stream found"))
                 ELSE [q1 EXCEPT !.stream = stream,
                                 !.filename = MakeFilename(q1.yt.title, q1.yt.video_id),
                                 !.pc = "retrieve"]

\* what stream.download() writes for request r
Content(r, q) == [video_id |-> q.yt.video_id, resolution |-> q.stream, writer |-> r]

\* mutant: a failed retrieval is tried again
download_retrieve_retry(q, out) ==
    LET q1 == [Step(q, "retrieve") EXCEPT !.retrievals = @ + 1]
    IN  IF out # "ok"
        THEN q1
        ELSE [q1 EXCEPT !.wrote = q1.filename, !.pc = "respond"]

\* stream.download(output_path, filename, timeout): `out` is "ok" or the
\* class of the exception raised
download_retrieve(q, out) ==
    LET q1 == [Step(q, "retrieve") EXCEPT !.retrievals = @ + 1]
    IN  IF out # "ok"
        THEN Fail(q1, Raise(out, "library error"))
        ELSE [q1 EXCEPT !.wrote = q1.filename, !.pc = "respond"]

\* os.path.exists(filepath), the read and the response
download_respond(q, files) ==
    LET q1 == [q EXCEPT !.checked = q.filename]
    IN  IF q1.checked \in DOMAIN files
        THEN Finish(q1, FileResponse(files[q1.checked], q1.filename), "stream")
        ELSE Fail(q1, Raise("FileNotFoundError", "Downloaded file not found"))

----------------------------------------------------------------------------
(* Steps shared by both handlers                                           *)

\* clean_url = sanitize_youtube_url(url), and the call of get_yt_object
normalize_step(q) ==
    LET out == sanitize_youtube_url(q.url)
        q1  == [Step(q, "normalize") EXCEPT !.normalizer_calls = @ + 1]
    IN  IF out.kind = "raise"
        THEN Fail(q1, out)
        ELSE [q1 EXCEPT !.clean_url = out.value,
                        !.fetcher_calls = @ + 1,
                        !.pc = "fetch"]

\* one attempt of get_yt_object, and what the handler does with its outcome
fetch_step(q, out, title, streams) ==
    LET handle == [ok |-> TRUE, video_id |-> VideoIdOf(q.clean_url),
                   title |-> title, streams |-> streams]
        q1 == get_yt_object_attempt(Step(q, "fetch"), out, handle)
    IN  IF q1.fetch.kind = "raise"
        THEN Fail(q1, q1.fetch)
        ELSE IF q1.fetch.kind = "return"
        THEN [q1 EXCEPT !.pc = IF q.handler = "home" THEN "gather" ELSE "select"]
        ELSE q1

----------------------------------------------------------------------------
(* Inputs                                                                  *)

\* how far below and above IdLen the length of a submitted token ranges
MaxShort == 1
MaxLong  == 1

Id_a == <<"a","b","c","1","2","3","4","5","6","7","8">>
Id_b == <<"X","y","Z","_","-","9","8","7","6","5","4">>

\* texts that submitted tokens are cut from
TokenBases ==
    { <<"a","b","c","1","2","3","4","5","6","7","8","X","Y","Z","9","0">>,
      <<"a","b","c","1","2","3","4","5","6","7","_","X","Y","Z","9","0">>,
      <<"X","y","Z","_","-","9","8","7","6","5","4","_","-","a","b","0">>,
      <<"d","Q","w","4","!","9","W","g","X","c","Q","a","b","c","d","e">> }

Tokens ==
    { SubSeq(b, 1, n) : b \in TokenBases, n \in (IdLen - MaxShort)..(IdLen + MaxLong) }

NormPrefixes ==
    { Empty, S_https, S_http, S_www, S_https \o S_www, S_http \o S_m, <<" ">> }

OtherShapes ==
    { <<"v","i","m","e","o",".","c","o","m","/">>,
      <<"y","o","u","t","u","b","e",".","c","o","m","/","s","h","o","r","t","s","/">>,
      <<"y","o","u","t","u","b","e",".","c","o","m","/","w","a","t","c","h","?","x","=">> }

\* the four accepted shapes, as a client writes them
AcceptedShapes ==
    { <<"y","o","u","t","u",".","b","e","/">>,
      <<"y","o","u","t","u","b","e",".","c","o","m","/","w","a","t","c","h","?","v","=">>,
      <<"y","o","u","t","u","b","e",".","c","o","m","/","e","m","b","e","d","/">>,
      <<"y","o","u","t","u","b","e",".","c","o","m","/","v","/">> }

NormSuffixes ==
    { Empty, <<"&","t","=","1","0","s">>, <<"?","f","e","a","t","u","r","e","=","s","h","a","r","e">> }

NormInput(prefix, shape, token, suffix) ==
    [prefix |-> prefix, shape |-> shape, token |-> token, suffix |-> suffix,
     text |-> prefix \o shape \o token \o suffix]

NormInputs ==
    { NormInput(p, sh, t, sf) :
        p \in NormPrefixes, sh \in AcceptedShapes \cup OtherShapes,
        t \in Tokens, sf \in NormSuffixes }

NoInput == NormInput(Empty, Empty, Empty, Empty)

\* the url field of a submitted form
PostedUrls ==
    { Empty,
      <<" "," ","\t">>,
      <<"n","o","t"," ","a"," ","u","r","l">>,
      <<"y","o","u","t","u",".","b","e","/","a","b","c","1","2","3","4","5","6","7">>,
      <<" ","h","t","t","p","s",":","/","/","y","o","u","t","u",".","b","e","/","a","b","c","1","2","3","4","5","6","7","8"," ">>,
      <<"y","o","u","t","u","b","e",".","c","o","m","/","w","a","t","c","h","?","v","=","a","b","c","1","2","3","4","5","6","7","8">>,
      <<"h","t","t","p","s",":","/","/","w","w","w",".","y","o","u","t","u","b","e",".","c","o","m","/","e","m","b","e","d","/","X","y","Z","_","-","9","8","7","6","5","4">> }

Qualities == {"highest", "lowest", "480p", "1080p"}

Labels == {"360p", "480p", "720p"}

T_claim == <<"M","y"," ","V","i","d","e","o","!"," ","@","#","$","%">>

Titles ==
    { T_claim,
      <<" "," ","a","-","b","_","c"," "," ">>,
      <<"x","\t","y"," ","\t">>,
      <<"!","!","!">> }

RemoteErrors == {"AgeRestrictedError", "VideoUnavailable", "URLError"}

FullCatalog == [titles |-> Titles, streamSets |-> SUBSET Labels, errors |-> RemoteErrors]

NoCatalog == [titles |-> {}, streamSets |-> {}, errors |-> {}]

----------------------------------------------------------------------------
(* Actions                                                                 *)

\* sanitize_youtube_url is called on the input under test
NormCall ==
    /\ nOut = Pending
    /\ nIn # NoInput
    /\ nOut' = sanitize_youtube_url(nIn.text)
    /\ UNCHANGED <<nIn, req, disk, catalog>>

HomeEntry ==
    \E r \in DOMAIN req :
        /\ req[r].handler = "home" /\ req[r].pc = "entry"
        /\ req' = [req EXCEPT ![r] = home_entry(@)]
        /\ UNCHANGED <<nIn, nOut, disk, catalog>>

DownloadEntry ==
    \E r \in DOMAIN req :
        /\ req[r].handler = "download" /\ req[r].pc = "entry"
        /\ req' = [req EXCEPT ![r] = download_entry(@)]
        /\ UNCHANGED <<nIn, nOut, disk, catalog>>

Normalize ==
    \E r \in DOMAIN req :
        /\ req[r].pc = "normalize"
        /\ req' = [req EXCEPT ![r] = normalize_step(@)]
        /\ UNCHANGED <<nIn, nOut, disk, catalog>>

\* one pass of the retry loop: the remote answers, and on a failure the
\* fetcher sleeps before the next pass
FetchAttempt ==
    \E r \in DOMAIN req :
        /\ req[r].pc = "fetch"
        /\ \E out \in {"ok"} \cup catalog.errors,
              title \in catalog.titles, streams \in catalog.streamSets :
               req' = [req EXCEPT ![r] = fetch_step(@, out, title, streams)]
        /\ UNCHANGED <<nIn, nOut, disk, catalog>>

HomeGather ==
    \E r \in DOMAIN req :
        /\ req[r].pc = "gather"
        /\ \E out \in {"ok"} \cup catalog.errors :
               req' = [req EXCEPT ![r] = home_gather(@, out)]
        /\ UNCHANGED <<nIn, nOut, disk, catalog>>

DownloadSelect ==
    \E r \in DOMAIN req :
        /\ req[r].pc = "select"
        /\ \E out \in {"ok"} \cup catalog.errors :
               req' = [req EXCEPT ![r] = download_select(@, out)]
        /\ UNCHANGED <<nIn, nOut, disk, catalog>>

DownloadRetrieve ==
    \E r \in DOMAIN req :
        /\ req[r].pc = "retrieve"
        /\ \E out \in {"ok"} \cup catalog.errors :
               /\ req' = [req EXCEPT ![r] = download_retrieve(@, out)]
               /\ disk' = IF out = "ok"
                          THEN (req[r].filename :> Content(r, req[r])) @@ disk
                          ELSE disk
        /\ UNCHANGED <<nIn, nOut, catalog>>

DownloadRespond ==
    \E r \in DOMAIN req :
        /\ req[r].pc = "respond"
        /\ req' = [req EXCEPT ![r] = download_respond(@, disk)]
        /\ UNCHANGED <<nIn, nOut, disk, catalog>>

\* the downloads directory is cleaned from outside the handlers
Cleanup ==
    \E f \in DOMAIN disk :
        /\ disk' = [g \in DOMAIN disk \ {f} |-> disk[g]]
        /\ UNCHANGED <<nIn, nOut, req, catalog>>

----------------------------------------------------------------------------
(* Specifications                                                          *)

\* one request, to either handler
Init ==
    /\ nIn = NoInput
    /\ nOut = Pending
    /\ disk = << >>
    /\ catalog = FullCatalog
    /\ \E h \in {"home", "download"}, m \in {"GET", "POST"},
          u \in PostedUrls, ql \in Qualities :
           /\ m = "GET" => u = Empty /\ ql = "highest"
           /\ h = "home" => ql = "highest"
           /\ req = (1 :> NewRequest(h, m, u, ql))

Next ==
    \/ HomeEntry
    \/ DownloadEntry
    \/ Normalize
    \/ FetchAttempt
    \/ HomeGather
    \/ DownloadSelect
    \/ DownloadRetrieve
    \/ DownloadRespond
    \/ Cleanup

Spec == Init /\ [][Next]_vars

\* sanitize_youtube_url alone, on every input of NormInputs
InitNorm ==
    /\ nIn \in NormInputs
    /\ nOut = Pending
    /\ req = << >>
    /\ disk = << >>
    /\ catalog = NoCatalog

NextNorm == NormCall

SpecNorm == InitNorm /\ [][NextNorm]_vars

\* two download requests handled concurrently, sharing the downloads directory
ConcUrls ==
    { <<"y","o","u","t","u",".","b","e","/","a","b","c","1","2","3","4","5","6","7","8">>,
      <<"y","o","u","t","u","b","e",".","c","o","m","/","w","a","t","c","h","?","v","=","a","b","c","1","2","3","4","5","6","7","8">>,
      <<"h","t","t","p","s",":","/","/","w","w","w",".","y","o","u","t","u","b","e",".","c","o","m","/","e","m","b","e","d","/","X","y","Z","_","-","9","8","7","6","5","4">> }

ConcCatalog ==
    [titles |-> {T_claim}, streamSets |-> {{"360p", "720p"}}, errors |-> {"URLError"}]

InitConc ==
    /\ nIn = NoInput
    /\ nOut = Pending
    /\ disk = << >>
    /\ catalog = ConcCatalog
    /\ \E u1 \in ConcUrls, u2 \in ConcUrls, q1 \in {"highest", "lowest"},
          q2 \in {"highest", "lowest"} :
           req = (1 :> NewRequest("download", "POST", u1, q1) @@
                  2 :> NewRequest("download", "POST", u2, q2))

NextConc ==
    \/ DownloadEntry
    \/ Normalize
    \/ FetchAttempt
    \/ DownloadSelect
    \/ DownloadRetrieve
    \/ DownloadRespond
    \/ Cleanup

SpecConc == InitConc /\ [][NextConc]_vars

----------------------------------------------------------------------------
(* Properties                                                              *)

Requests == DOMAIN req

\* the seq has only members of S
AllIn(seq, S) == \A i \in 1..Len(seq) : seq[i] \in S

Count(seq, e) == Cardinality({ i \in 1..Len(seq) : seq[i] = e })

Has(seq, e) == \E i \in 1..Len(seq) : seq[i] = e

CanonText == <<"h","t","t","p","s",":","/","/","w","w","w",".","y","o","u","t","u","b","e",".","c","o","m","/","w","a","t","c","h","?","v","=">>

\* a submitted token that is a valid identifier
ValidId(t) == Len(t) = 11 /\ AllIn(t, IdChar)

\* the length of the identifier token a client wrote in the id position
WrittenTokenLen(in) == RunLen(in.token \o in.suffix, 1, IdChar)

\* 2^0 + ... + 2^(k-1)
RECURSIVE BackoffSum(_)
BackoffSum(k) == IF k = 0 THEN 0 ELSE BackoffSum(k - 1) + 2 ^ (k - 1)

\* C1: with the default bound of 3, a fetch that returns has followed k
\* failures (k <= 2) with exactly k+1 attempts and 2^0 + ... + 2^(k-1) units
\* of waiting, and returns a usable handle; a fetch that fails has made
\* exactly 3 attempts and raises the generic PytubeError; there is never a
\* 4th attempt, nor an attempt after a success.
C1_FetcherRetryContract ==
    \A r \in Requests :
        LET q == req[r]
            k == Len(q.failures)
        IN  /\ q.remote_calls <= 3
            /\ q.fetch.kind = "return" =>
                   /\ q.yt.ok /\ Len(q.yt.video_id) = 11
                   /\ k <= 2
                   /\ q.remote_calls = k + 1
                   /\ q.slept = BackoffSum(k)
            /\ q.fetch.kind = "raise" =>
                   /\ q.remote_calls = 3 /\ k = 3
                   /\ q.fetch.cls = "PytubeError"
                   /\ ~q.yt.ok
            /\ q.fetch.kind = "pending" => ~q.yt.ok /\ q.remote_calls = k
            /\ q.fetcher_calls <= 1

\* C1 witness: the remote failed twice, then the fetch returned on the 3rd
\* attempt after waiting 1 + 2 units
C1_Witness ==
    \E r \in Requests :
        /\ req[r].fetch.kind = "return"
        /\ Len(req[r].failures) = 2
        /\ req[r].remote_calls = 3
        /\ req[r].slept = 3

\* C2: a fetch that fails after only age-restriction failures raises an
\* error of the age-restricted kind, one that fails after only unavailable
\* failures raises an error of the unavailable kind, and only other failures
\* end as the generic error.
C2_DistinguishableFailures ==
    \A r \in Requests :
        LET q == req[r]
        IN  q.fetch.kind = "raise" =>
                IF AllIn(q.failures, {"AgeRestrictedError"})
                THEN IsInstance(q.fetch.cls, "AgeRestrictedError")
                ELSE IF AllIn(q.failures, {"VideoUnavailable"})
                THEN IsInstance(q.fetch.cls, "VideoUnavailable")
                ELSE q.fetch.cls = "PytubeError"

\* C3: a submission whose url is empty or only whitespace never reaches the
\* normalizer, the fetcher or the remote; the download handler answers 400
\* without a template, the info handler re-renders the form with an error.
C3_EmptyUrlRejectedFirst ==
    \A r \in Requests :
        LET q == req[r]
        IN  (q.method = "POST" /\ AllIn(q.posted_url, {" ", "\t", "\n"})) =>
                /\ q.normalizer_calls = 0
                /\ q.fetcher_calls = 0
                /\ q.remote_calls = 0
                /\ q.pc \in {"entry", "done"}
                /\ q.pc = "done" =>
                       /\ q.trace = <<"reject">>
                       /\ q.handler = "download" =>
                              /\ q.response.kind = "bad_request"
                              /\ q.response.status = 400
                              /\ q.response.template = ""
                       /\ q.handler = "home" =>
                              /\ q.response.kind = "render"
                              /\ q.response.template = "home.html"
                              /\ DOMAIN q.response.context = {"error"}

\* C3 witness: the download handler has rejected a whitespace-only url
C3_Witness ==
    \E r \in Requests :
        /\ req[r].handler = "download"
        /\ req[r].posted_url = <<" "," ","\t">>
        /\ req[r].response.kind = "bad_request"

\* C4: every submission to the info handler ends by rendering the form page
\* (no exception leaves the handler, and an unfinished request is at a step
\* of the handler), with exactly one of 'success' and 'error' in the context.
C4_InfoAlwaysRenders ==
    \A r \in Requests :
        LET q == req[r]
        IN  (q.handler = "home" /\ q.method = "POST") =>
                /\ q.response.kind \in {"none", "render"}
                /\ q.pc # "done" =>
                       /\ q.response.kind = "none"
                       /\ q.pc \in {"entry", "normalize", "fetch", "gather"}
                       /\ q.pc = "fetch" => q.attempt < 3
                /\ q.pc = "done" =>
                       /\ q.response.kind = "render"
                       /\ q.response.template = "home.html"
                       /\ ("success" \in DOMAIN q.response.context)
                              # ("error" \in DOMAIN q.response.context)

\* C4 witness: the fetch succeeded, a metadata accessor raised an exception
\* that is no PytubeError, and the form was rendered with the generic message
C4_Witness ==
    \E r \in Requests :
        /\ req[r].handler = "home"
        /\ req[r].fetch.kind = "return"
        /\ req[r].response.kind = "render"
        /\ "error" \in DOMAIN req[r].response.context
        /\ req[r].response.context["error"] = "Failed to fetch video information"

\* C5: for a valid 11-character identifier in any of the four accepted
\* shapes the normalizer returns https://www.youtube.com/watch?v=<id>, the
\* same for all four shapes, and a different identifier gives a different URL.
C5_CanonicalForAllShapes ==
    (nOut # Pending /\ nIn.shape \in AcceptedShapes /\ ValidId(nIn.token)) =>
        /\ nOut = Return(CanonText \o nIn.token)
        /\ \A sh \in AcceptedShapes :
               sanitize_youtube_url(nIn.prefix \o sh \o nIn.token \o nIn.suffix) = nOut
        /\ \A t \in Tokens :
               (ValidId(t) /\ t # nIn.token) =>
                   sanitize_youtube_url(nIn.prefix \o nIn.shape \o t \o nIn.suffix) # nOut

\* C5 witness: an embed URL with a valid identifier has been normalized
C5_Witness ==
    /\ nOut # Pending
    /\ nIn.shape = <<"y","o","u","t","u","b","e",".","c","o","m","/","e","m","b","e","d","/">>
    /\ nIn.prefix = S_https \o S_www
    /\ nIn.token = Id_b
    /\ nOut.kind = "return"

\* C6: an input that has none of the four shapes, or whose identifier token
\* is not exactly 11 characters long, makes the normalizer raise
\* RegexMatchError and return no URL.
C6_RejectsWrongLength ==
    (nOut # Pending
        /\ (nIn.shape \notin AcceptedShapes \/ WrittenTokenLen(nIn) # 11)) =>
        /\ nOut.kind = "raise"
        /\ nOut.cls = "RegexMatchError"

\* the maximum and minimum resolution of a set of streams
IsMaxRes(s, streams) == s \in streams /\ \A t \in streams : ResValue(t) <= ResValue(s)
IsMinRes(s, streams) == s \in streams /\ \A t \in streams : ResValue(s) <= ResValue(t)

\* whether the policy resolves a stream for this quality
Resolves(quality, streams) ==
    IF quality \in {"highest", "lowest"} THEN streams # {} ELSE quality \in streams

\* C7: once selection has run (the library raising nothing), "highest" has
\* selected the maximum resolution, "lowest" the minimum, any other value
\* the stream with that label; when no stream resolves the request has
\* ended with the "No suitable stream found" error and no retrieval started.
C7_StreamSelectionPolicy ==
    \A r \in Requests :
        LET q == req[r]
            streams == q.yt.streams
            raised == q.caught.kind = "raise" /\ q.caught.msg = "library error"
        IN  (q.handler = "download" /\ q.selections > 0 /\ ~raised) =>
                IF Resolves(q.quality, streams)
                THEN /\ q.quality = "highest" => IsMaxRes(q.stream, streams)
                     /\ q.quality = "lowest" => IsMinRes(q.stream, streams)
                     /\ q.quality \notin {"highest", "lowest"} => q.stream = q.quality
                ELSE /\ q.stream = NoStream
                     /\ q.pc = "done"
                     /\ q.caught = Raise("PytubeError", "No suitable stream found")
                     /\ q.response.kind = "render"
                     /\ q.response.context["error"] = "No suitable stream found"
                     /\ q.retrievals = 0
                     /\ q.wrote = Empty
                     /\ disk = << >>

\* C7 witness: 1080p was asked of 360p/480p/720p and the request ended
\* with the error, nothing retrieved
C7_Witness ==
    \E r \in Requests :
        /\ req[r].quality = "1080p"
        /\ req[r].yt.streams = {"360p", "480p", "720p"}
        /\ req[r].selections = 1
        /\ req[r].response.kind = "render"
        /\ req[r].response.context["error"] = "No suitable stream found"

KeptChars == Lower \cup Upper \cup Digit \cup {" ", "-", "_"}

\* s without its characters outside KeptChars
RECURSIVE Kept(_)
Kept(s) ==
    IF s = << >> THEN << >>
    ELSE IF Head(s) \in KeptChars THEN <<Head(s)>> \o Kept(Tail(s))
    ELSE Kept(Tail(s))

\* t is s with its trailing whitespace trimmed
IsRightTrimOf(t, s) ==
    /\ Len(t) <= Len(s)
    /\ t = SubSeq(s, 1, Len(t))
    /\ \A i \in (Len(t) + 1)..Len(s) : s[i] \in {" ", "\t", "\n"}
    /\ t # << >> => t[Len(t)] \notin {" ", "\t", "\n"}

\* C8: the filename is the title without the characters that are not
\* alphanumeric, space, hyphen or underscore, right-trimmed, followed by
\* _<id>.mp4; the download target, the existence check and the
\* Content-Disposition header all use it.
C8_FilenamePolicy ==
    \A r \in Requests :
        LET q    == req[r]
            tail == <<"_">> \o q.yt.video_id \o <<".", "m", "p", "4">>
            n    == Len(q.filename) - Len(tail)
        IN  /\ q.selections > 0 /\ q.stream # NoStream =>
                /\ n >= 0
                /\ SubSeq(q.filename, n + 1, Len(q.filename)) = tail
                /\ IsRightTrimOf(SubSeq(q.filename, 1, n), Kept(q.yt.title))
                /\ (q.yt.title = T_claim /\ q.yt.video_id = Id_a) =>
                       q.filename = <<"M","y"," ","V","i","d","e","o","_","a","b","c","1","2","3","4","5","6","7","8",".","m","p","4">>
            /\ q.pc = "respond" => q.wrote # Empty
            /\ q.wrote # Empty => q.wrote = q.filename
            /\ q.checked # Empty => q.checked = q.filename /\ q.checked = q.wrote
            /\ q.response.kind = "file" =>
                   /\ q.response.disposition = q.filename
                   /\ q.checked = q.filename
                   /\ q.wrote = q.filename

\* C8 witness: the file of `My Video! @#$%` / abc12345678 has been served
C8_Witness ==
    \E r \in Requests :
        /\ req[r].response.kind = "file"
        /\ req[r].yt.title = T_claim
        /\ req[r].yt.video_id = Id_a

\* the place of a step in Validating, Fetching, Selecting, Retrieving,
\* Streaming; the steps that end a request come last
StageRank(e) ==
    CASE e = "validate"  -> 1
      [] e = "normalize" -> 2
      [] e = "fetch"     -> 3
      [] e = "select"    -> 4
      [] e = "retrieve"  -> 5
      [] e = "stream"    -> 6
      [] OTHER           -> 7

\* C9: the steps of a download request occur in the order validate,
\* normalize, fetch, select, retrieve, stream; only fetch repeats (at most 3
\* times); retrieval follows a returned fetch and a resolved stream; and an
\* error or a response is the last step of the request.
C9_DownloadStepOrder ==
    \A r \in Requests :
        LET q  == req[r]
            tr == q.trace
        IN  (q.handler = "download" /\ q.method = "POST") =>
                /\ \A i, j \in 1..Len(tr) :
                       i < j => \/ StageRank(tr[i]) < StageRank(tr[j])
                                \/ tr[i] = "fetch" /\ tr[j] = "fetch"
                /\ Count(tr, "fetch") <= 3
                /\ Count(tr, "select") = q.selections /\ q.selections <= 1
                /\ Count(tr, "retrieve") = q.retrievals /\ q.retrievals <= 1
                /\ Has(tr, "fetch") => Has(tr, "validate") /\ Has(tr, "normalize")
                /\ Has(tr, "select") => Has(tr, "fetch") /\ q.fetch.kind = "return"
                /\ Has(tr, "retrieve") =>
                       Has(tr, "select") /\ q.fetch.kind = "return" /\ q.stream # NoStream
                /\ Has(tr, "stream") => Has(tr, "retrieve") /\ q.response.kind = "file"
                /\ (q.pc = "done") = (q.response.kind # "none")
                /\ (q.pc = "done") = (tr # << >> /\ StageRank(tr[Len(tr)]) >= 6)
                /\ Has(tr, "error") =>
                       /\ q.response.kind = "render"
                       /\ "error" \in DOMAIN q.response.context

\* C9 witness: a request fetched three times, selected, retrieved and
\* streamed the file
C9_Witness ==
    \E r \in Requests :
        req[r].trace = <<"validate", "normalize", "fetch", "fetch", "fetch",
                         "select", "retrieve", "stream">>

\* C10 as claimed: two concurrent requests write the same filename only
\* when they are for the same video and the same quality, and a file
\* response carries the content of the request's own stream unless another
\* request for the same video and quality wrote the file in between.
C10_SameFileOnlySameVideoAndQuality ==
    /\ \A r1, r2 \in Requests :
           (r1 # r2 /\ req[r1].wrote # Empty /\ req[r1].wrote = req[r2].wrote) =>
               /\ req[r1].yt.video_id = req[r2].yt.video_id
               /\ req[r1].quality = req[r2].quality
    /\ \A r \in Requests :
           req[r].response.kind = "file" =>
               \/ req[r].response.body = Content(r, req[r])
               \/ LET w == req[r].response.body.writer
                  IN  /\ w # r
                      /\ req[w].yt.video_id = req[r].yt.video_id
                      /\ req[w].quality = req[r].quality

\* C10 as amended: two concurrent requests write the same filename only
\* when they are for the same video, whatever their qualities; a request
\* answers with a file only after writing it, and the file response carries
\* the content of the request's own stream unless another request for the
\* same video, of any quality, wrote that filename after it.
C10_SameFileOnlySameVideo ==
    /\ \A r1, r2 \in Requests :
           (r1 # r2 /\ req[r1].wrote # Empty /\ req[r1].wrote = req[r2].wrote) =>
               req[r1].yt.video_id = req[r2].yt.video_id
    /\ \A r \in Requests :
           req[r].response.kind = "file" =>
               /\ req[r].wrote = req[r].filename
               /\ \/ req[r].response.body = Content(r, req[r])
                  \/ LET w == req[r].response.body.writer
                     IN  /\ w # r
                         /\ req[w].wrote = req[r].wrote
                         /\ req[w].yt.video_id = req[r].yt.video_id

\* C10 witness: a request has answered with the file that a concurrent
\* request for the same video and another quality wrote over its own
C10_Witness ==
    \E r, w \in Requests :
        /\ r # w
        /\ req[r].response.kind = "file"
        /\ req[r].response.body = Content(w, req[w])
        /\ req[r].yt.video_id = req[w].yt.video_id
        /\ req[r].quality # req[w].quality
        /\ req[r].stream # req[w].stream

====
